---------------------------- MODULE Spec2Model ----------------------------
(***************************************************************************)
(* State-machine model of ClientCredentials (src/src/client-credentials.ts) *)
(* the OAuth2 client-credentials token manager of xcorplatform-client.      *)
(*                                                                          *)
(* getAccessToken() and updateToken() are async functions: each runs        *)
(* atomically up to its next await, so each segment between two awaits is   *)
(* one action.  The token endpoint (httpClient.post), the wall clock        *)
(* (Date.now) and the timer facility (setInterval / clearInterval) are the  *)
(* environment.                                                             *)
(***************************************************************************)
EXTENDS Integers, Sequences, FiniteSets, TLC

(* ------------------------------ bounds --------------------------------- *)

\* number of independent callers issuing getAccessToken / updateToken / close
NumCallers == 2

\* total number of exchanges with the token endpoint in one behaviour
MaxFetches == 2

\* number of clock advances in one behaviour
MaxTicks == 1

\* number of times auth() replaces the manager in one behaviour
MaxAuths == 1

\* expires_in values (seconds) the endpoint may report
Lifetimes == {59, 60, 61}

\* expires_in values of a body whose access_token is missing
MalformedLifetimes == {61}

(* --------------------------- program constants ------------------------- *)

\* config.refreshBeforeExpiration ?? 60
DefaultRefreshBeforeExpiration == 60

\* seconds -> milliseconds factor in the expiration computation
MsPerSecond == 1000

\* refreshBeforeExpiration values a configuration may carry
Margins == {DefaultRefreshBeforeExpiration}

\* Date.now() when the manager is constructed, in seconds since 1970; the
\* variable now and every instant computed from it count milliseconds from here
ClockBase == 1700000000

(* ------------------------------ values --------------------------------- *)

\* JavaScript values are tagged: an undefined, a NaN, a number, a string
\* JavaScript undefined
Undefined == [t |-> "undefined", v |-> 0]

\* JavaScript NaN (the result of arithmetic on undefined)
NaN == [t |-> "NaN", v |-> 0]

\* the number n
Num(n) == [t |-> "number", v |-> n]

\* the token string number k
Str(k) == [t |-> "string", v |-> k]

\* the value of a promise that has not settled yet
Pending == [t |-> "pending", v |-> 0]

Callers == 1 .. NumCallers

VARIABLES
    accessToken,              \* this.accessToken : token | Undefined
    expiration,               \* this.expiration  : Int | NaN | Undefined
    intervalId,               \* this.intervalId  : index into timers, 0 = undefined
    refreshBeforeExpiration,  \* this.refreshBeforeExpiration (seconds)
    disableBackgroundRefresh, \* this.disableBackgroundRefresh
    now,                      \* Date.now(), in milliseconds after ClockBase
    timers,                   \* every interval ever created by setInterval
    fetches,                  \* every httpClient.post ever issued
    response,                 \* the body of the latest 2xx response
    calls,                    \* per caller: the call it is executing, if any
    returned,                 \* the call the last step completed, if any
    retired,                  \* the managers an auth() has replaced
    limits                    \* how far this behaviour is explored

vars == <<accessToken, expiration, intervalId, refreshBeforeExpiration,
          disableBackgroundRefresh, now, timers, fetches, response, calls,
          returned, retired, limits>>

\* what no operation changes: the configuration and the exploration limits
config == <<refreshBeforeExpiration, disableBackgroundRefresh, limits>>

(* ------------------------- JavaScript arithmetic ----------------------- *)

IsNumber(x) == x.t = "number"

\* a < b on JavaScript numbers: false whenever an operand is NaN
JsLess(a, b) == IF IsNumber(a) /\ IsNumber(b) THEN a.v < b.v ELSE FALSE

\* a + b
JsAdd(a, b) == IF IsNumber(a) /\ IsNumber(b) THEN Num(a.v + b.v) ELSE NaN

\* a - b, where undefined converts to NaN
JsSub(a, b) == IF IsNumber(a) /\ IsNumber(b) THEN Num(a.v - b.v) ELSE NaN

\* a * b
JsMul(a, b) == IF IsNumber(a) /\ IsNumber(b) THEN Num(a.v * b.v) ELSE NaN


(* ------------------------------ timers --------------------------------- *)

\* The delay setInterval(callback, delay) really uses: a delay that is not a
\* number in 1 .. 2^31-1 milliseconds is replaced by 1 millisecond.  The code
\* passes this.expiration, a Date.now()-based instant: delay.v milliseconds
\* after ClockBase seconds, compared here without leaving 32 bits.
TimerDelay(delay) ==
    IF ~IsNumber(delay) THEN 1
    ELSE LET s == ClockBase + (delay.v \div 1000)
             r == delay.v % 1000
         IN IF /\ (s >= 1 \/ (s = 0 /\ r >= 1))
               /\ s <= (2147483647 - r) \div 1000
            THEN s * 1000 + r
            ELSE 1

\* setInterval(() => this.updateToken(), delay): a new repeating timer, with
\* the delay in milliseconds it really has and the runs of its callback
SetInterval(ts, delay) ==
    Append(ts, [active |-> TRUE,
                delay  |-> TimerDelay(delay),
                fired  |-> 0])

\* a cancelled timer: it never runs again
Cleared == [active |-> FALSE, delay |-> 0, fired |-> 0]

\* if (this.intervalId) { clearInterval(this.intervalId); }
ClearInterval(ts, id) ==
    IF id # 0 THEN [ts EXCEPT ![id] = Cleared] ELSE ts

(* --------------------------- replaced managers ------------------------- *)

\* A ClientCredentials that auth() has replaced lives on: its exchanges in
\* flight, its armed timers and the calls that hold a reference to it go on
\* working on its fields, not on those of the manager in use.
RetiredFetches == UNION {retired[o].fetches : o \in 1 .. Len(retired)}

RetiredTimers == UNION {retired[o].timers : o \in 1 .. Len(retired)}

RetiredCallers == UNION {retired[o].callers : o \in 1 .. Len(retired)}

\* of these exchanges, the ones in flight; of these timers, the armed ones
PendingOf(fs) == {f \in fs : fetches[f].st = "pending"}

ActiveOf(ts) == {t \in ts : timers[t].active}

(* --------------------------- call bookkeeping -------------------------- *)

\* what a call finds in Token State when it starts
Cache ==
    IF accessToken = Undefined \/ expiration = Undefined THEN "absent"
    ELSE IF ~IsNumber(expiration) THEN "NaN"
    ELSE IF expiration.v < now THEN "expired"
    ELSE IF expiration.v = now THEN "due"
    ELSE "fresh"

\* a caller that is executing nothing.  Of a call in progress: the exchange it
\* issued, the cache it found on entry (saw, sawToken), whether nobody else
\* has written Token State since it started (intact), and whether the only
\* such writes were close() running while its exchange was in flight
\* (closedInFlight); of a send(), the value its getAccessToken() resolved
\* with (got).
IdleCall ==
    [pc |-> "idle", fetch |-> 0, saw |-> "none", sawToken |-> Undefined,
     intact |-> TRUE, closedInFlight |-> FALSE, got |-> Undefined]

\* the last step completed no call
NoReturn ==
    [caller |-> 0, op |-> "none", value |-> Pending, outcome |-> "none",
     fetch |-> 0, saw |-> "none", sawToken |-> Undefined, intact |-> TRUE,
     closedInFlight |-> FALSE, logs |-> 0]

\* no 2xx response has arrived yet
NoResponse == [access_token |-> Undefined, expires_in |-> Undefined]

\* call c (record call) completes: its promise resolves with value
Resolved(c, op, call, value) ==
    [caller |-> c, op |-> op, value |-> value, outcome |-> "resolved",
     fetch |-> call.fetch, saw |-> call.saw, sawToken |-> call.sawToken,
     intact |-> call.intact, closedInFlight |-> call.closedInFlight,
     logs |-> 0]

\* a call entered now, and what it finds in the cache
Entered(pc, f) ==
    [IdleCall EXCEPT !.pc = pc, !.fetch = f,
                     !.saw = Cache, !.sawToken = accessToken]

\* Token State of the manager in use was written by somebody else while
\* these getAccessToken() calls on it were suspended, or had returned to a
\* send() that has not used the token yet (updateToken() itself never reads
\* Token State)
Disturb(cs, f) ==
    [c \in Callers |->
        IF /\ cs[c].pc \in {"awaitUpdate", "resume", "awaitToken"}
           /\ cs[c].fetch # f
           /\ c \notin RetiredCallers
        THEN [cs[c] EXCEPT !.intact = FALSE, !.closedInFlight = FALSE]
        ELSE cs[c]]

\* close() wrote Token State while these calls were suspended
Closing(cs) ==
    [c \in Callers |->
        IF cs[c].pc = "awaitUpdate"
        THEN [cs[c] EXCEPT !.intact = FALSE,
                           !.closedInFlight =
                               cs[c].intact \/ cs[c].closedInFlight]
        ELSE IF cs[c].pc \in {"resume", "awaitToken"}
        THEN [cs[c] EXCEPT !.intact = FALSE, !.closedInFlight = FALSE]
        ELSE cs[c]]

\* the promise of the updateToken() that issued fetch f settles: a direct
\* caller is done, a getAccessToken() awaiting it gets its continuation queued
Settle(cs, f) ==
    [c \in Callers |->
        IF cs[c].fetch = f /\ cs[c].pc = "awaitPost" THEN IdleCall
        ELSE IF cs[c].fetch = f /\ cs[c].pc = "awaitUpdate"
        THEN [cs[c] EXCEPT !.pc = "resume"]
        ELSE cs[c]]

\* what the settling of fetch f completes: the updateToken() that issued it,
\* called directly by a caller or by the timer callback (caller 0), resolves
\* with no value; the one called by a getAccessToken() is seen through that
\* call's own return
SettleReturn(f) ==
    IF \E c \in Callers : calls[c].fetch = f /\ calls[c].pc = "awaitPost"
    THEN LET c == CHOOSE c \in Callers :
                      calls[c].fetch = f /\ calls[c].pc = "awaitPost"
         IN Resolved(c, "updateToken",
                     calls[c], Undefined)
    ELSE IF fetches[f].background
    THEN Resolved(0, "updateToken", [IdleCall EXCEPT !.fetch = f], Undefined)
    ELSE NoReturn

(* ----------------------------- the program ----------------------------- *)

Init ==
    /\ accessToken = Undefined
    /\ expiration = Undefined
    /\ intervalId = 0
    /\ refreshBeforeExpiration \in Margins
    /\ disableBackgroundRefresh \in BOOLEAN
    /\ now = 0
    /\ timers = << >>
    /\ fetches = << >>
    /\ response = NoResponse
    /\ calls = [c \in Callers |-> IdleCall]
    /\ returned = NoReturn
    /\ retired = << >>
    /\ limits = [fetches |-> MaxFetches, ticks |-> MaxTicks]

\* NeedsUpdate with the comparison the wrong way round
NeedsUpdateFlipped ==
    \/ accessToken = Undefined
    \/ expiration = Undefined
    \/ JsLess(Num(now), expiration)

\* NeedsUpdate without the expiry test
NeedsUpdateNoExpiry ==
    \/ accessToken = Undefined
    \/ expiration = Undefined

\* the condition of getAccessToken(): the cache cannot be served
NeedsUpdate ==
    \/ accessToken = Undefined
    \/ expiration = Undefined
    \/ JsLess(expiration, Num(now))

\* UpdateTokenStart that invalidates the cached token before fetching
UpdateTokenStartInvalidating(background, ts) ==
    /\ Len(fetches) < limits.fetches
    /\ timers' = ClearInterval(ts, intervalId)
    /\ fetches' = Append(fetches, [background |-> background,
                                   st |-> "pending"])
    /\ returned' = NoReturn
    /\ accessToken' = Undefined
    /\ expiration' = Undefined
    /\ UNCHANGED <<intervalId, config, retired, now, response>>

\* updateToken() up to its await: cancel the held timer, issue the POST.
\* ts are the timers as they stand when updateToken() is entered; background
\* tells that the timer callback is the caller.
UpdateTokenStart(background, ts) ==
    /\ Len(fetches) < limits.fetches
    /\ timers' = ClearInterval(ts, intervalId)
    /\ fetches' = Append(fetches, [background |-> background,
                                   st |-> "pending"])
    /\ returned' = NoReturn
    /\ UNCHANGED <<accessToken, expiration, intervalId, config, retired, now,
                   response>>

\* getAccessToken() with a usable cache: returns without suspending
GetAccessTokenCached(c) ==
    /\ calls[c].pc = "idle"
    /\ ~NeedsUpdate
    /\ returned' = Resolved(c, "getAccessToken", Entered("idle", 0),
                            accessToken)
    /\ UNCHANGED <<accessToken, expiration, intervalId, config, retired, now,
                   timers, fetches, response, calls>>

\* getAccessToken() on a miss: calls updateToken() and awaits it
GetAccessTokenMiss(c) ==
    /\ calls[c].pc = "idle"
    /\ NeedsUpdate
    /\ UpdateTokenStart(FALSE, timers)
    /\ calls' = [calls EXCEPT ![c] =
            Entered("awaitUpdate", Len(fetches) + 1)]

\* GetAccessTokenReturn that resolves with the token the call saw on entry
GetAccessTokenReturnEntryToken(c) ==
    /\ calls[c].pc = "resume"
    /\ returned' = Resolved(c, "getAccessToken", calls[c], calls[c].sawToken)
    /\ calls' = [calls EXCEPT ![c] = IdleCall]
    /\ UNCHANGED <<accessToken, expiration, intervalId, config, retired, now,
                   timers, fetches, response>>

\* GetAccessTokenReturn that tests the cache again and fetches again when it
\* still cannot be served
GetAccessTokenReturnRetrying(c) ==
    /\ calls[c].pc = "resume"
    /\ IF NeedsUpdate
       THEN /\ UpdateTokenStart(FALSE, timers)
            /\ calls' = [calls EXCEPT ![c].pc = "awaitUpdate",
                                      ![c].fetch = Len(fetches) + 1]
       ELSE /\ returned' = Resolved(c, "getAccessToken", calls[c],
                                    accessToken)
            /\ calls' = [calls EXCEPT ![c] = IdleCall]
            /\ UNCHANGED <<accessToken, expiration, intervalId, config, retired, now,
                           timers, fetches, response>>

\* the continuation of getAccessToken(): return this.accessToken!
GetAccessTokenReturn(c) ==
    /\ calls[c].pc = "resume"
    /\ returned' = Resolved(c, "getAccessToken", calls[c], accessToken)
    /\ calls' = [calls EXCEPT ![c] = IdleCall]
    /\ UNCHANGED <<accessToken, expiration, intervalId, config, retired, now,
                   timers, fetches, response>>

\* updateToken() called directly (the public refresh operation)
UpdateTokenCall(c) ==
    /\ calls[c].pc = "idle"
    /\ UpdateTokenStart(FALSE, timers)
    /\ calls' = [calls EXCEPT ![c] =
            [IdleCall EXCEPT !.pc = "awaitPost",
                             !.fetch = Len(fetches) + 1]]

\* an interval runs its callback () => this.updateToken().  Timer callbacks
\* run between tasks, never while a promise continuation is still queued.
\* Timers follow the monotonic clock of the event loop, not Date.now(): an
\* interval of one millisecond may run with Date.now() reading what it read
\* when the interval was armed or last ran, so no reading of now is required
\* (every delay the code passes is one millisecond, see TimerDelay).
\* The interval repeats: it stays armed after the run.
TimerFire(t) ==
    /\ t \in 1 .. Len(timers)
    /\ timers[t].active
    /\ \A c \in Callers : calls[c].pc \notin {"resume", "awaitToken"}
    /\ UpdateTokenStart(TRUE,
                        [timers EXCEPT ![t].fired = timers[t].fired + 1])
    /\ UNCHANGED calls

\* Expiration that leaves the difference in seconds
ExpirationInSeconds(expires_in) ==
    JsAdd(Num(now), JsSub(expires_in, Num(refreshBeforeExpiration)))

\* Date.now() + (response.data.expires_in - this.refreshBeforeExpiration) * 1000
Expiration(expires_in) ==
    JsAdd(Num(now),
          JsMul(JsSub(expires_in, Num(refreshBeforeExpiration)),
                Num(MsPerSecond)))

\* PostResolves that arms the timer whatever disableBackgroundRefresh says
PostResolvesAlwaysArming(f, access_token, expires_in) ==
    /\ f \in 1 .. Len(fetches)
    /\ fetches[f].st = "pending"
    /\ fetches' = [fetches EXCEPT ![f].st =
            IF access_token # Undefined /\ expires_in # Undefined
            THEN "ok" ELSE "malformed"]
    /\ response' = [access_token |-> access_token,
                    expires_in |-> expires_in]
    /\ accessToken' = access_token
    /\ expiration' = Expiration(expires_in)
    /\ timers' = SetInterval(timers, Expiration(expires_in))
    /\ intervalId' = Len(timers) + 1
    /\ calls' = Settle(Disturb(calls, f), f)
    /\ returned' = SettleReturn(f)
    /\ UNCHANGED <<config, retired, now>>

\* the POST resolves with a body carrying access_token and expires_in (either
\* may be missing): the try block of updateToken() after the await
PostResolves(f, access_token, expires_in) ==
    /\ f \in 1 .. Len(fetches)
    /\ fetches[f].st = "pending"
    /\ fetches' = [fetches EXCEPT ![f].st =
            IF access_token # Undefined /\ expires_in # Undefined
            THEN "ok" ELSE "malformed"]
    /\ response' = [access_token |-> access_token,
                    expires_in |-> expires_in]
    /\ accessToken' = access_token
    /\ expiration' = Expiration(expires_in)
    /\ IF ~disableBackgroundRefresh
       THEN /\ timers' = SetInterval(timers, Expiration(expires_in))
            /\ intervalId' = Len(timers) + 1
       ELSE UNCHANGED <<timers, intervalId>>
    /\ calls' = Settle(Disturb(calls, f), f)
    /\ returned' = SettleReturn(f)
    /\ UNCHANGED <<config, retired, now>>

\* PostRejects with a catch block that also drops the cached token
PostRejectsClearing(f) ==
    /\ f \in 1 .. Len(fetches)
    /\ fetches[f].st = "pending"
    /\ fetches' = [fetches EXCEPT ![f].st = "rejected"]
    /\ calls' = Settle(calls, f)
    /\ returned' = [SettleReturn(f) EXCEPT !.logs = 1]
    /\ accessToken' = Undefined
    /\ expiration' = Undefined
    /\ UNCHANGED <<intervalId, config, retired, now, timers, response>>

\* PostRejects with a catch block that logs and throws the error again
PostRejectsRethrowing(f) ==
    /\ f \in 1 .. Len(fetches)
    /\ fetches[f].st = "pending"
    /\ fetches' = [fetches EXCEPT ![f].st = "rejected"]
    /\ calls' = Settle(calls, f)
    /\ returned' = [SettleReturn(f) EXCEPT !.logs = 1,
                                           !.outcome = "rejected"]
    /\ UNCHANGED <<accessToken, expiration, intervalId, config, retired, now, timers,
                   response>>

\* the POST rejects (transport error, non-2xx status): the catch block, one
\* console.error and nothing else
PostRejects(f) ==
    /\ f \in 1 .. Len(fetches)
    /\ fetches[f].st = "pending"
    /\ fetches' = [fetches EXCEPT ![f].st = "rejected"]
    /\ calls' = Settle(calls, f)
    /\ returned' = [SettleReturn(f) EXCEPT !.logs = 1]
    /\ UNCHANGED <<accessToken, expiration, intervalId, config, retired, now, timers,
                   response>>

\* close() whose second assignment copies the wrong field
CloseMiscopying ==
    /\ timers' = ClearInterval(timers, intervalId)
    /\ accessToken' = Undefined
    /\ expiration' = accessToken
    /\ calls' = Closing(calls)
    /\ returned' = Resolved(0, "close", Entered("idle", 0), Undefined)
    /\ UNCHANGED <<intervalId, config, retired, now, fetches, response>>

\* close(): synchronous, it returns nothing and throws nothing
Close ==
    /\ timers' = ClearInterval(timers, intervalId)
    /\ accessToken' = Undefined
    /\ expiration' = Undefined
    /\ calls' = Closing(calls)
    /\ returned' = Resolved(0, "close", Entered("idle", 0), Undefined)
    /\ UNCHANGED <<intervalId, config, retired, now, fetches, response>>

\* the wall clock advances by one millisecond
Tick ==
    /\ now < limits.ticks
    /\ now' = now + 1
    /\ returned' = NoReturn
    /\ UNCHANGED <<accessToken, expiration, intervalId, config, retired,
                   timers, fetches, response, calls>>

\* the token a well-behaved endpoint issues in exchange f
TokenOf(f) == Str(f)

\* the bodies a 2xx response may carry: each field present or missing
Bodies(f) ==
    {[access_token |-> TokenOf(f), expires_in |-> Num(l)] : l \in Lifetimes}
    \cup {[access_token |-> Undefined, expires_in |-> Num(l)] :
                l \in MalformedLifetimes}
    \cup {[access_token |-> TokenOf(f), expires_in |-> Undefined],
          [access_token |-> Undefined, expires_in |-> Undefined]}

Next ==
    \/ \E c \in Callers : GetAccessTokenCached(c)
    \/ \E c \in Callers : GetAccessTokenMiss(c)
    \/ \E c \in Callers : GetAccessTokenReturn(c)
    \/ \E c \in Callers : UpdateTokenCall(c)
    \/ \E t \in 1 .. Len(timers) : TimerFire(t)
    \/ \E f \in 1 .. Len(fetches) :
         \E body \in Bodies(f) :
           PostResolves(f, body.access_token, body.expires_in)
    \/ \E f \in 1 .. Len(fetches) : PostRejects(f)
    \/ Close
    \/ Tick

Spec == Init /\ [][Next]_vars

\* A manager with background refresh enabled, driven only through
\* updateToken(), answered only by well-formed responses, and followed for
\* twice as many exchanges and clock advances: the life of its timers.
InitTimers ==
    /\ accessToken = Undefined
    /\ expiration = Undefined
    /\ intervalId = 0
    /\ refreshBeforeExpiration \in Margins
    /\ disableBackgroundRefresh = FALSE
    /\ now = 0
    /\ timers = << >>
    /\ fetches = << >>
    /\ response = NoResponse
    /\ calls = [c \in Callers |-> IdleCall]
    /\ returned = NoReturn
    /\ retired = << >>
    /\ limits = [fetches |-> 2 * MaxFetches, ticks |-> 2 * MaxTicks]

NextTimers ==
    \/ \E c \in Callers : UpdateTokenCall(c)
    \/ \E t \in 1 .. Len(timers) : TimerFire(t)
    \/ \E f \in 1 .. Len(fetches) :
         \E l \in Lifetimes : PostResolves(f, TokenOf(f), Num(l))
    \/ Tick

SpecTimers == InitTimers /\ [][NextTimers]_vars

(* ------------------------------ progress ------------------------------- *)

\* the token endpoint answers exchange f, one way or the other
ExchangeReturns(f) ==
    \/ \E body \in Bodies(f) :
         PostResolves(f, body.access_token, body.expires_in)
    \/ PostRejects(f)

\* a manager with background refresh disabled: only calls start exchanges
InitLive ==
    /\ accessToken = Undefined
    /\ expiration = Undefined
    /\ intervalId = 0
    /\ refreshBeforeExpiration \in Margins
    /\ disableBackgroundRefresh = TRUE
    /\ now = 0
    /\ timers = << >>
    /\ fetches = << >>
    /\ response = NoResponse
    /\ calls = [c \in Callers |-> IdleCall]
    /\ returned = NoReturn
    /\ retired = << >>
    /\ limits = [fetches |-> MaxFetches, ticks |-> MaxTicks]

\* getAccessToken() calls, the answers to their exchanges and close(), at
\* one clock instant
NextLive ==
    \/ \E c \in Callers : GetAccessTokenCached(c)
    \/ \E c \in Callers : GetAccessTokenMiss(c)
    \/ \E c \in Callers : GetAccessTokenReturn(c)
    \/ \E f \in 1 .. Len(fetches) : ExchangeReturns(f)
    \/ Close

\* Every exchange issued is answered in the end, and the event loop runs
\* every continuation it has queued.
SpecLive ==
    /\ InitLive
    /\ [][NextLive]_vars
    /\ \A f \in 1 .. MaxFetches : WF_vars(ExchangeReturns(f))
    /\ \A c \in Callers : WF_vars(GetAccessTokenReturn(c))

(* ------------------------ the stored expiration ------------------------ *)

\* the margins (seconds) a configuration may ask for, and none at all
MarginInputs == {0, 1, 59, 60, 61, 120}

ConfiguredMargins == {Undefined} \cup {Num(m) : m \in MarginInputs}

\* the lifetimes (seconds) the endpoint may report
LifetimeInputs == {0, 1, 59, 60, 61, 3600}

\* config.refreshBeforeExpiration ?? 60
ConstructedMargin(configured) ==
    IF configured = Undefined THEN DefaultRefreshBeforeExpiration
    ELSE configured.v

\* A manager constructed with any of the margins, refreshed through
\* updateToken(), by a caller or by the callback of its interval when
\* background refresh is enabled, and answered with any of the lifetimes.
InitExpiration ==
    /\ accessToken = Undefined
    /\ expiration = Undefined
    /\ intervalId = 0
    /\ refreshBeforeExpiration \in
           {ConstructedMargin(m) : m \in ConfiguredMargins}
    /\ disableBackgroundRefresh \in BOOLEAN
    /\ now = 0
    /\ timers = << >>
    /\ fetches = << >>
    /\ response = NoResponse
    /\ calls = [c \in Callers |-> IdleCall]
    /\ returned = NoReturn
    /\ retired = << >>
    /\ limits = [fetches |-> MaxFetches, ticks |-> MaxTicks]

NextExpiration ==
    \/ \E c \in Callers : UpdateTokenCall(c)
    \/ \E f \in 1 .. Len(fetches) :
         \E l \in LifetimeInputs : PostResolves(f, TokenOf(f), Num(l))
    \/ \E t \in 1 .. Len(timers) : TimerFire(t)
    \/ Tick

SpecExpiration == InitExpiration /\ [][NextExpiration]_vars

(* ------------------------ XcorPlatformClient.send ----------------------- *)

\* String(x) as a template literal applies it: undefined becomes the text
\* "undefined", written Str(0) here; a string stays what it is
JsString(x) == IF x = Undefined THEN Str(0) ELSE x

\* `Bearer ${token}`
Bearer(token) == [t |-> "bearer", v |-> JsString(token).v]

\* what the API endpoint may do with a request: answer 2xx, answer with an
\* error status and a body, answer with an error status and no body, or not
\* answer at all (network error)
ApiOutcomes == {"response", "httpError", "httpErrorNoBody", "networkError"}

\* the authorization header a request may bring in its own props.headers:
\* none, or one of its own
OwnAuthorizations == {Undefined, [t |-> "basic", v |-> 0]}

\* the calls of the manager in use that still work on it
ManagerCallers ==
    {c \in Callers : calls[c].pc \in {"awaitUpdate", "resume", "awaitToken"}}
        \ RetiredCallers

\* call c has taken its token and no longer belongs to a replaced manager
Released(c) ==
    [o \in 1 .. Len(retired) |->
        [retired[o] EXCEPT !.callers = retired[o].callers \ {c}]]

\* send(), first step, with a usable cached token: getAccessToken() reads the
\* cache and returns; send() is suspended at its await with that value
SendCached(c) ==
    /\ calls[c].pc = "idle"
    /\ ~NeedsUpdate
    /\ calls' = [calls EXCEPT ![c] =
            [Entered("awaitToken", 0) EXCEPT !.got = accessToken]]
    /\ returned' = Resolved(c, "getAccessToken", Entered("idle", 0),
                            accessToken)
    /\ UNCHANGED <<accessToken, expiration, intervalId, config, retired, now,
                   timers, fetches, response>>

\* send(), first step, with no usable cached token: getAccessToken() calls
\* updateToken() and send() waits for it
SendMiss(c) == GetAccessTokenMiss(c)

\* the continuation of getAccessToken() inside send(): it returns
\* this.accessToken of the manager in use; send() resumes one hop later
SendResume(c) ==
    /\ calls[c].pc = "resume"
    /\ c \notin RetiredCallers
    /\ calls' = [calls EXCEPT ![c].pc = "awaitToken",
                              ![c].got = accessToken]
    /\ returned' = Resolved(c, "getAccessToken", calls[c], accessToken)
    /\ UNCHANGED <<accessToken, expiration, intervalId, config, retired, now,
                   timers, fetches, response>>

\* the headers of the request: authorization is the Bearer of the token the
\* await gave, then Object.assign lays the request's own headers over it
Authorization(token, own) == IF own # Undefined THEN own ELSE Bearer(token)

\* the continuation of send() after the await of getAccessToken(): the headers
\* are built; a delete request with data (invalid) throws, any other request
\* goes out
SendContinue(c, own, invalid) ==
    /\ calls[c].pc = "awaitToken"
    /\ IF invalid
       THEN /\ calls' = [calls EXCEPT ![c] = IdleCall]
            /\ returned' = [Resolved(c, "send", calls[c], Undefined)
                               EXCEPT !.outcome = "rejected"]
       ELSE /\ calls' = [calls EXCEPT ![c].pc = "awaitRequest"]
            /\ returned' = Resolved(c, "request", calls[c],
                                    Authorization(calls[c].got, own))
    /\ retired' = Released(c)
    /\ UNCHANGED <<accessToken, expiration, intervalId, refreshBeforeExpiration,
                   disableBackgroundRefresh, limits, now, timers, fetches,
                   response>>

\* the API request settles.  A response makes send() resolve with its data;
\* an error status with a body makes it resolve with the error read from the
\* body; an error status without a body makes processError throw on reading
\* data.message, and any other error is thrown again: send() rejects
SendSettles(c, outcome) ==
    /\ calls[c].pc = "awaitRequest"
    /\ calls' = [calls EXCEPT ![c] = IdleCall]
    /\ returned' = [Resolved(c, "send", calls[c], [t |-> outcome, v |-> 0])
                       EXCEPT !.outcome =
                           IF outcome \in {"response", "httpError"}
                           THEN "resolved" ELSE "rejected"]
    /\ UNCHANGED <<accessToken, expiration, intervalId, config, retired, now,
                   timers, fetches, response>>

\* auth(config) called again: a new ClientCredentials, with its defaults and an
\* empty cache, takes the place of the one in use, which is not closed.  The
\* replaced manager keeps its fields, its exchanges in flight, its armed timer
\* and the calls suspended on it.
Auth ==
    /\ Len(retired) < MaxAuths
    /\ retired' = Append(retired,
            [accessToken |-> accessToken,
             expiration |-> expiration,
             intervalId |-> intervalId,
             fetches |-> PendingOf((1 .. Len(fetches)) \ RetiredFetches),
             timers |-> ActiveOf((1 .. Len(timers)) \ RetiredTimers),
             callers |-> ManagerCallers])
    /\ accessToken' = Undefined
    /\ expiration' = Undefined
    /\ intervalId' = 0
    /\ returned' = NoReturn
    /\ UNCHANGED <<config, now, timers, fetches, response, calls>>

\* Token State of replaced manager o was written while these calls on it were
\* suspended
RetiredDisturb(cs, o, f) ==
    [c \in Callers |->
        IF c \in retired[o].callers /\ cs[c].fetch # f
        THEN [cs[c] EXCEPT !.intact = FALSE, !.closedInFlight = FALSE]
        ELSE cs[c]]

\* the interval of replaced manager o runs its callback: updateToken() of
\* that manager clears its interval and issues a POST
RetiredTimerFire(o, t) ==
    /\ t \in retired[o].timers
    /\ timers[t].active
    /\ \A c \in Callers : calls[c].pc \notin {"resume", "awaitToken"}
    /\ Len(fetches) < limits.fetches
    /\ timers' = ClearInterval(
            [timers EXCEPT ![t].fired = timers[t].fired + 1],
            retired[o].intervalId)
    /\ fetches' = Append(fetches, [background |-> TRUE, st |-> "pending"])
    /\ retired' = [retired EXCEPT
            ![o].fetches = retired[o].fetches \cup {Len(fetches) + 1},
            ![o].timers = retired[o].timers \ {retired[o].intervalId}]
    /\ returned' = NoReturn
    /\ UNCHANGED <<accessToken, expiration, intervalId, config, now, response,
                   calls>>

\* a POST of replaced manager o resolves: the try block of updateToken()
\* writes the fields of that manager and arms its interval
RetiredPostResolves(o, f, access_token, expires_in) ==
    /\ f \in retired[o].fetches
    /\ fetches[f].st = "pending"
    /\ fetches' = [fetches EXCEPT ![f].st =
            IF access_token # Undefined /\ expires_in # Undefined
            THEN "ok" ELSE "malformed"]
    /\ response' = [access_token |-> access_token,
                    expires_in |-> expires_in]
    /\ IF ~disableBackgroundRefresh
       THEN /\ timers' = SetInterval(timers, Expiration(expires_in))
            /\ retired' = [retired EXCEPT
                    ![o].accessToken = access_token,
                    ![o].expiration = Expiration(expires_in),
                    ![o].intervalId = Len(timers) + 1,
                    ![o].fetches = retired[o].fetches \ {f},
                    ![o].timers = retired[o].timers \cup {Len(timers) + 1}]
       ELSE /\ retired' = [retired EXCEPT
                    ![o].accessToken = access_token,
                    ![o].expiration = Expiration(expires_in),
                    ![o].fetches = retired[o].fetches \ {f}]
            /\ UNCHANGED timers
    /\ calls' = Settle(RetiredDisturb(calls, o, f), f)
    /\ returned' = SettleReturn(f)
    /\ UNCHANGED <<accessToken, expiration, intervalId, config, now>>

\* a POST of replaced manager o rejects: the catch block logs
RetiredPostRejects(o, f) ==
    /\ f \in retired[o].fetches
    /\ fetches[f].st = "pending"
    /\ fetches' = [fetches EXCEPT ![f].st = "rejected"]
    /\ retired' = [retired EXCEPT ![o].fetches = retired[o].fetches \ {f}]
    /\ calls' = Settle(calls, f)
    /\ returned' = [SettleReturn(f) EXCEPT !.logs = 1]
    /\ UNCHANGED <<accessToken, expiration, intervalId, config, now, timers,
                   response>>

\* the continuation of getAccessToken() inside a send() that started on
\* replaced manager o: it returns this.accessToken of that manager
RetiredSendResume(o, c) ==
    /\ c \in retired[o].callers
    /\ calls[c].pc = "resume"
    /\ calls' = [calls EXCEPT ![c].pc = "awaitToken",
                              ![c].got = retired[o].accessToken]
    /\ returned' = Resolved(c, "getAccessToken", calls[c],
                            retired[o].accessToken)
    /\ UNCHANGED <<accessToken, expiration, intervalId, config, retired, now,
                   timers, fetches, response>>

\* auth(config) constructs the ClientCredentials with its defaults
InitSend ==
    /\ accessToken = Undefined
    /\ expiration = Undefined
    /\ intervalId = 0
    /\ refreshBeforeExpiration = DefaultRefreshBeforeExpiration
    /\ disableBackgroundRefresh = FALSE
    /\ now = 0
    /\ timers = << >>
    /\ fetches = << >>
    /\ response = NoResponse
    /\ calls = [c \in Callers |-> IdleCall]
    /\ returned = NoReturn
    /\ retired = << >>
    /\ limits = [fetches |-> MaxFetches, ticks |-> MaxTicks]

NextSend ==
    \/ \E c \in Callers : SendCached(c)
    \/ \E c \in Callers : SendMiss(c)
    \/ \E c \in Callers : SendResume(c)
    \/ \E c \in Callers : \E own \in OwnAuthorizations :
         \E invalid \in BOOLEAN : SendContinue(c, own, invalid)
    \/ \E c \in Callers : \E outcome \in ApiOutcomes : SendSettles(c, outcome)
    \/ \E f \in (1 .. Len(fetches)) \ RetiredFetches :
         \E body \in Bodies(f) :
           PostResolves(f, body.access_token, body.expires_in)
    \/ \E f \in (1 .. Len(fetches)) \ RetiredFetches : PostRejects(f)
    \/ \E t \in (1 .. Len(timers)) \ RetiredTimers : TimerFire(t)
    \/ Tick
    \/ Auth
    \/ \E o \in 1 .. Len(retired) : \E t \in retired[o].timers :
         RetiredTimerFire(o, t)
    \/ \E o \in 1 .. Len(retired) : \E f \in retired[o].fetches :
         \E body \in Bodies(f) :
           RetiredPostResolves(o, f, body.access_token, body.expires_in)
    \/ \E o \in 1 .. Len(retired) : \E f \in retired[o].fetches :
         RetiredPostRejects(o, f)
    \/ \E o \in 1 .. Len(retired) : \E c \in retired[o].callers :
         RetiredSendResume(o, c)

SpecSend == InitSend /\ [][NextSend]_vars

(* ------------------------------- claims -------------------------------- *)

\* the exchanges issued and not yet settled
PendingFetches == {f \in 1 .. Len(fetches) : fetches[f].st = "pending"}

\* no 2xx response has ever been stored
NeverCached ==
    \A f \in 1 .. Len(fetches) : fetches[f].st \in {"pending", "rejected"}

\* the last step completed a getAccessToken() call
GotToken == returned.op = "getAccessToken"

\* C1: single-flight.  Any two getAccessToken() calls that found the cache
\* unusable and are suspended before any exchange has completed wait on one
\* and the same exchange, the only one issued.
C1_SingleFlight ==
    \A c1, c2 \in Callers :
        ( /\ c1 # c2
          /\ calls[c1].pc = "awaitUpdate"
          /\ calls[c2].pc = "awaitUpdate"
          /\ PendingFetches = 1 .. Len(fetches) )
        => (calls[c1].fetch = calls[c2].fetch /\ Len(fetches) = 1)

\* C2: cache fast path.  A getAccessToken() call that finds a token whose
\* expiration is strictly in the future resolves with exactly that token and
\* issues no exchange.
C2_CacheFastPath ==
    (GotToken /\ returned.saw = "fresh")
    => ( /\ returned.value = returned.sawToken
         /\ returned.outcome = "resolved"
         /\ returned.fetch = 0 )

C2_Witness ==
    /\ GotToken
    /\ returned.saw = "fresh"
    /\ returned.value.t = "string"
    /\ returned.fetch = 0

\* C3: expiry-triggered refetch.  A getAccessToken() call that finds the cached
\* token expired issues an exchange; when that exchange delivers a well-formed
\* response and nothing else writes Token State during the call, the call
\* resolves with the token of that exchange, not with the old one.
C3_ExpiryRefetch ==
    (GotToken /\ returned.saw = "expired")
    => ( /\ returned.fetch # 0
         /\ (fetches[returned.fetch].st = "ok" /\ returned.intact)
            => ( /\ returned.value = TokenOf(returned.fetch)
                 /\ returned.value # returned.sawToken
                 /\ returned.outcome = "resolved" ) )

C3_Witness ==
    /\ GotToken
    /\ returned.saw = "expired"
    /\ returned.fetch # 0
    /\ fetches[returned.fetch].st = "ok"
    /\ returned.intact
    /\ returned.value = TokenOf(returned.fetch)

\* C4: failure with no fallback.  A getAccessToken() call whose exchange is
\* rejected while no response has ever been stored ends in an error, and Token
\* State stays empty.
C4_FailureNoFallback ==
    ( /\ GotToken
      /\ returned.fetch # 0
      /\ fetches[returned.fetch].st = "rejected"
      /\ NeverCached )
    => ( /\ returned.outcome = "rejected"
         /\ accessToken = Undefined
         /\ expiration = Undefined )

\* the step rejects the exchange f
Rejects(f) ==
    /\ f \in 1 .. Len(fetches)
    /\ fetches[f].st = "pending"
    /\ fetches'[f].st = "rejected"

\* the step delivers to exchange f a 2xx response lacking a required field
DeliversMalformed(f) ==
    /\ f \in 1 .. Len(fetches)
    /\ fetches[f].st = "pending"
    /\ fetches'[f].st = "malformed"

\* an exchange issued by the timer callback is in flight or was rejected
BackgroundRefreshFailing ==
    \E f \in 1 .. Len(fetches) :
        fetches[f].background /\ fetches[f].st \in {"pending", "rejected"}

\* the step issues an exchange from the timer callback
IssuesBackground ==
    /\ Len(fetches') = Len(fetches) + 1
    /\ fetches'[Len(fetches')].background

\* C5: failure with fallback.  A refresh started by the timer callback whose
\* exchange is rejected leaves a cached, unexpired token cached and unexpired
\* (both when it issues the exchange and when it handles the rejection), and
\* every getAccessToken() call that overlaps or follows such a refresh and
\* finds the token unexpired resolves with that token, without error and
\* without an exchange of its own.
C5_FailureWithFallback ==
    /\ [][( /\ Cache = "fresh"
            /\ \/ IssuesBackground
               \/ \E f \in 1 .. MaxFetches :
                     Rejects(f) /\ fetches[f].background )
          => (accessToken' = accessToken /\ Cache' = "fresh")]_vars
    /\ []((GotToken /\ BackgroundRefreshFailing /\ returned.saw = "fresh")
          => ( /\ returned.value = returned.sawToken
               /\ returned.value = accessToken
               /\ returned.outcome = "resolved"
               /\ returned.fetch = 0 ))

C5_Witness ==
    /\ GotToken
    /\ returned.saw = "fresh"
    /\ returned.value.t = "string"
    /\ \E f \in 1 .. Len(fetches) :
          fetches[f].background /\ fetches[f].st = "rejected"

\* C6: a failed fetch leaves Token State unchanged.  Neither step of an
\* updateToken() whose exchange is rejected (issuing the exchange, handling
\* the rejection) changes the access token or the expiration instant.
C6_FailedFetchFrame ==
    [][( \/ Len(fetches') > Len(fetches)
         \/ \E f \in 1 .. MaxFetches : Rejects(f) )
       => (accessToken' = accessToken /\ expiration' = expiration)]_vars

C6_Witness ==
    /\ accessToken.t = "string"
    /\ IsNumber(expiration)
    /\ \E f \in 1 .. Len(fetches) : fetches[f].st = "rejected"
    /\ returned.op = "updateToken"
    /\ fetches[returned.fetch].st = "rejected"

\* C7: stale token served on failure.  A getAccessToken() call that finds the
\* cached token expired and whose exchange is rejected, nothing else writing
\* Token State meanwhile, resolves without error with the stale token, which
\* Token State still holds.
C7_StaleTokenServed ==
    ( /\ GotToken
      /\ returned.saw = "expired"
      /\ returned.fetch # 0
      /\ fetches[returned.fetch].st = "rejected"
      /\ returned.intact )
    => ( /\ returned.value = returned.sawToken
         /\ returned.value # Undefined
         /\ returned.outcome = "resolved"
         /\ accessToken = returned.sawToken )

C7_Witness ==
    /\ GotToken
    /\ returned.saw = "expired"
    /\ returned.fetch # 0
    /\ fetches[returned.fetch].st = "rejected"
    /\ returned.intact
    /\ returned.value.t = "string"

\* C8: token/expiration pair invariant.  The access token is present exactly
\* when the expiration instant is present.
C8_PairInvariant ==
    (accessToken = Undefined) <=> (expiration = Undefined)

\* C9: a malformed response is handled like a transport failure.  The step
\* that processes a 2xx response lacking access_token or expires_in modifies
\* neither Token State nor the timers.
C9_MalformedIsFailure ==
    [][(\E f \in 1 .. MaxFetches : DeliversMalformed(f))
       => ( /\ accessToken' = accessToken
            /\ expiration' = expiration
            /\ timers' = timers
            /\ intervalId' = intervalId )]_vars

\* C10: negative lifetime handling.  The token of a response whose lifetime
\* does not exceed the refresh margin is never served from the cache: a
\* getAccessToken() call that resolves with it has issued an exchange.
C10_NegativeLifetime ==
    ( /\ GotToken
      /\ returned.value.t = "string"
      /\ returned.value = response.access_token
      /\ IsNumber(response.expires_in)
      /\ response.expires_in.v <= refreshBeforeExpiration )
    => returned.fetch # 0

\* the timers that are armed and not cancelled
PendingTimers == {t \in 1 .. Len(timers) : timers[t].active}

\* C11: single pending timer.  In every reachable state every timer that is
\* armed and not cancelled is the one the manager holds the handle of, so
\* there is at most one.
C11_SinglePendingTimer ==
    /\ PendingTimers \subseteq {intervalId}
    /\ Cardinality(PendingTimers) <= 1

\* C12: the timer is set for the expiration.  The step that stores a token
\* whose expiration lies ahead and arms the timer gives the timer the delay
\* from the current clock value to that expiration.
C12_TimerAtExpiration ==
    [][\A f \in 1 .. Len(fetches) :
         ( /\ fetches[f].st = "pending"
           /\ fetches'[f].st = "ok"
           /\ Len(timers') = Len(timers) + 1
           /\ expiration'.v > now )
         => timers'[Len(timers')].delay = expiration'.v - now]_vars

\* C13: one-shot timer.  No timer runs its callback, and so starts a
\* refresh, more than once over its lifetime.
C13_OneShotTimer ==
    \A t \in 1 .. Len(timers) : timers[t].fired <= 1

\* the step delivers to exchange f a 2xx response with both required fields
Delivers(f) ==
    /\ f \in 1 .. Len(fetches)
    /\ fetches[f].st = "pending"
    /\ fetches'[f].st = "ok"

\* C14: successful refresh.  The step that delivers a well-formed response
\* stores the token of that response and the expiration computed from its
\* expires_in; with background refresh enabled it leaves a newly armed timer
\* pending and held, with background refresh disabled it arms none and no
\* timer exists in any reachable state.
C14_SuccessfulRefresh ==
    /\ [][\A f \in 1 .. Len(fetches) : Delivers(f) =>
            /\ accessToken' = TokenOf(f)
            /\ accessToken' = response'.access_token
            /\ expiration' =
                 Num(now + (response'.expires_in.v - refreshBeforeExpiration)
                           * MsPerSecond)
            /\ IF disableBackgroundRefresh
               THEN timers' = timers /\ intervalId' = intervalId
               ELSE /\ Len(timers') = Len(timers) + 1
                    /\ intervalId' = Len(timers')
                    /\ timers'[intervalId'].active]_vars
    /\ [](disableBackgroundRefresh => timers = << >>)

C14_Witness ==
    /\ ~disableBackgroundRefresh
    /\ intervalId \in PendingTimers
    /\ fetches[intervalId].st = "ok"
    /\ accessToken = TokenOf(intervalId)
    /\ accessToken = response.access_token
    /\ expiration = Num(now + 1000)

\* C15: failed refresh leaves no timer.  When an updateToken() call whose
\* exchange was rejected completes, no timer is pending.
C15_FailedRefreshNoTimer ==
    ( /\ returned.op = "updateToken"
      /\ fetches[returned.fetch].st = "rejected" )
    => PendingTimers = {}

\* C16: close() postcondition.  Right after close() no timer is pending and
\* Token State is empty.
C16_ClosePostcondition ==
    returned.op = "close"
    => ( /\ PendingTimers = {}
         /\ accessToken = Undefined
         /\ expiration = Undefined )

\* C17: close() is idempotent.  close() can be called in every state and
\* never fails, and a close() that directly follows a close() changes nothing
\* of the manager, its timers or its calls in progress.
C17_CloseIdempotent ==
    /\ [][(returned.op = "close" /\ returned'.op = "close")
           => UNCHANGED <<accessToken, expiration, intervalId, timers,
                          fetches, response, calls, now>>]_vars
    /\ [](ENABLED Close)
    /\ [](returned.op = "close" => returned.outcome = "resolved")

\* a close() of a manager that issued one exchange, had it answered well and
\* was closed already
C17_Witness ==
    /\ returned.op = "close"
    /\ returned.saw = "absent"
    /\ Len(fetches) = 1
    /\ fetches[1].st = "ok"
    /\ accessToken = Undefined
    /\ PendingTimers = {}

\* C18: fresh exchange after close().  A getAccessToken() call made after
\* close() is never served from the cache: it performs an exchange of its
\* own.  That close() has run before the call is read off a call still in
\* progress whose exchange was in flight when close() ran; a call that
\* resolves without an exchange begins and ends in one step, so it was made
\* after that close().
C18_FreshAfterClose ==
    (\E c \in Callers : calls[c].closedInFlight)
    => ~(GotToken /\ returned.fetch = 0)

\* C19: close() during a fetch.  A call on which close() ran while its
\* exchange was in flight, and nothing else wrote Token State, is not left
\* blocked: its exchange can still be answered and its continuation can
\* still run; when the exchange delivers a well-formed response the
\* getAccessToken() call resolves with the token of that exchange.
C19_CloseDuringFetch ==
    /\ \A c \in Callers : calls[c].closedInFlight =>
          /\ calls[c].pc = "awaitUpdate"
             => fetches[calls[c].fetch].st = "pending"
          /\ calls[c].pc = "resume" => ENABLED GetAccessTokenReturn(c)
    /\ ( /\ GotToken
         /\ returned.closedInFlight
         /\ fetches[returned.fetch].st = "ok" )
       => ( /\ returned.value = TokenOf(returned.fetch)
            /\ returned.value # Undefined
            /\ returned.outcome = "resolved" )

C19_Witness ==
    /\ GotToken
    /\ returned.closedInFlight
    /\ fetches[returned.fetch].st = "ok"
    /\ returned.value = TokenOf(returned.fetch)

\* C20: no stale overwrite.  When an exchange settles while Token State holds
\* the token of an exchange issued after it, Token State keeps that token and
\* its expiration.
C20_NoStaleOverwrite ==
    [][\A f \in 1 .. Len(fetches) :
         ( /\ fetches[f].st = "pending"
           /\ fetches'[f].st # "pending"
           /\ \E g \in (f + 1) .. Len(fetches) :
                 fetches[g].st = "ok" /\ accessToken = TokenOf(g) )
         => (accessToken' = accessToken /\ expiration' = expiration)]_vars

\* C21: one exchange at a time.  In every reachable state at most one
\* exchange with the token endpoint is in progress, whoever started it.
C21_OneExchangeAtATime ==
    Cardinality(PendingFetches) <= 1

\* the step settles exchange f, which the timer callback issued
SettlesBackground(f) ==
    /\ f \in 1 .. Len(fetches)
    /\ fetches[f].background
    /\ fetches[f].st = "pending"
    /\ fetches'[f].st # "pending"

\* C22: a refresh started by the timer raises nothing.  Whatever the endpoint
\* answers, the updateToken() the timer callback started resolves; when the
\* exchange is rejected the error is logged exactly once and the token and
\* expiration cached before stay in place; nothing is logged otherwise.
C22_BackgroundRefreshSwallows ==
    [][\A f \in 1 .. Len(fetches) : SettlesBackground(f) =>
         /\ returned'.op = "updateToken"
         /\ returned'.fetch = f
         /\ returned'.outcome = "resolved"
         /\ fetches'[f].st = "rejected"
            => ( /\ returned'.logs = 1
                 /\ accessToken' = accessToken
                 /\ expiration' = expiration )
         /\ fetches'[f].st # "rejected" => returned'.logs = 0]_vars

C22_Witness ==
    /\ returned.op = "updateToken"
    /\ returned.caller = 0
    /\ fetches[returned.fetch].background
    /\ fetches[returned.fetch].st = "rejected"
    /\ returned.logs = 1
    /\ returned.outcome = "resolved"
    /\ accessToken = TokenOf(1)
    /\ Cache = "fresh"

\* C23: no request without a token.  No API request goes out with an
\* authorization header made from an absent token.
C23_NoRequestWithoutToken ==
    returned.op = "request" => returned.value # Bearer(Undefined)

\* C24: closed stays idle.  A step that directly follows close() and begins
\* no getAccessToken() or updateToken() leaves Token State empty and arms no
\* timer.
C24_ClosedStaysIdle ==
    [][(returned.op = "close" /\ Len(fetches') = Len(fetches))
       => ( /\ accessToken' = Undefined
            /\ expiration' = Undefined
            /\ PendingTimers' \subseteq PendingTimers )]_vars

\* C25: the stored expiration.  The step that delivers a well-formed response
\* stores as expiration the clock value of that step plus the reported
\* lifetime minus the margin, both in seconds, times 1000 (the clock counts
\* milliseconds); the margin is the configured one, and 60 when none is
\* configured.
C25_StoredExpiration ==
    /\ [][\A f \in 1 .. Len(fetches) : Delivers(f) =>
            /\ response'.expires_in.v \in LifetimeInputs
            /\ expiration' =
                 Num(now + (response'.expires_in.v - refreshBeforeExpiration)
                           * 1000)]_vars
    /\ [](\A m \in ConfiguredMargins :
            ConstructedMargin(m) = IF m = Undefined THEN 60 ELSE m.v)
    /\ [](refreshBeforeExpiration \in MarginInputs \cup {60})

\* a lifetime of 61 seconds under a margin of 120, processed after the clock
\* has advanced: the expiration lies 59 seconds before the clock
C25_Witness ==
    /\ now > 0
    /\ refreshBeforeExpiration = 120
    /\ accessToken = response.access_token
    /\ accessToken # Undefined
    /\ response.expires_in = Num(61)
    /\ expiration = Num(now - 59000)

\* C26: expiry boundary.  A getAccessToken() call that finds the cached
\* token's expiration equal to the current time does not serve it: it
\* resolves after an exchange.
C26_ExpiryBoundary ==
    (GotToken /\ returned.saw = "due") => returned.fetch # 0

\* the call of caller c is a getAccessToken() that has not returned yet
Waiting(c) == calls[c].pc \in {"awaitUpdate", "resume"}

\* C27: termination.  When every exchange is answered in the end, every
\* getAccessToken() call that waits returns in the end; a step that starts a
\* getAccessToken() call issues at most one exchange, and the call keeps
\* that one exchange until it returns, going from waiting for the exchange
\* to resuming to returned and never back.
C27_GetTokenTerminates ==
    /\ \A c \in Callers : Waiting(c) ~> ~Waiting(c)
    /\ [][\A c \in Callers :
            /\ (~Waiting(c) /\ Waiting(c)')
               => ( /\ Len(fetches') = Len(fetches) + 1
                    /\ calls'[c].fetch = Len(fetches')
                    /\ calls'[c].pc = "awaitUpdate" )
            /\ (Waiting(c) /\ Waiting(c)')
               => ( /\ calls'[c].fetch = calls[c].fetch
                    /\ calls[c].pc = "resume" => calls'[c].pc = "resume" )
            /\ (Waiting(c) /\ ~Waiting(c)')
               => ( /\ calls[c].pc = "resume"
                    /\ returned'.op = "getAccessToken"
                    /\ returned'.caller = c
                    /\ returned'.fetch = calls[c].fetch
                    /\ Len(fetches') = Len(fetches) )]_vars

\* a getAccessToken() call that waited for its exchange has returned
C27_Witness ==
    /\ GotToken
    /\ returned.fetch # 0
    /\ ~Waiting(returned.caller)
    /\ fetches[returned.fetch].st # "pending"

====
